---- MODULE Spec2Model ----
(***************************************************************************)
(* The note orchestrator of src/src/App.jsx: the React state of App        *)
(* (notes, formState, file, loading), the three asynchronous operations    *)
(* fetchNotes, createNote and deleteNote, and the two collaborators they   *)
(* call (the Notes model of the data client, and the object storage).      *)
(*                                                                         *)
(* Every `await` of the source is a suspension point.  An operation that   *)
(* is suspended is an entry of `ops`; the steps of the model are the       *)
(* synchronous runs of the code between two suspension points.  Calls to   *)
(* the Notes model are in two steps (the service handles the request, the  *)
(* client resumes with the response); calls to the storage are one step,   *)
(* since nothing in the client reads the storage in between.               *)
(*                                                                         *)
(* A collaborator call that fails is a rejected promise (an exception at   *)
(* the await), as the collaborator contracts state it.                     *)
(***************************************************************************)
EXTENDS Integers, Sequences, FiniteSets, TLC

\* ---------------------------------------------------------------- bounds

\* operations started in one run, the fetchNotes of the mount effect included
MaxStarts == 2

\* ---------------------------------------------------------------- values

\* a name is a sequence of characters; the whitespace among them
Whitespace == {" "}
\* the names typed into the name field
Names == {<<>>, <<" ">>, <<"a">>}
Descriptions == {"", "Fun"}
NoFile == "null"
FileNames == {"p.png"}
\* the values Date.now() gives while the model runs
Times == {1}
\* the same with a clock that may be set back to the time of an earlier upload
SkewTimes == {0} \cup Times

NoId == 0
NoKey == <<>>
NoUrl == <<>>

\* what the backend holds when the application starts: two records of an
\* earlier session, the second with an image
InitialDb ==
  << [id |-> 1, name |-> <<"a">>, description |-> "", image |-> NoKey,
      imageUrl |-> NoUrl],
     [id |-> 2, name |-> <<"a">>, description |-> "Fun", image |-> <<0, "p.png">>,
      imageUrl |-> NoUrl] >>
InitialStore == {<<0, "p.png">>}

EmptyForm == [name |-> <<>>, description |-> ""]

Note(id, name, description, image, imageUrl) ==
  [id |-> id, name |-> name, description |-> description,
   image |-> image, imageUrl |-> imageUrl]

NoNote == Note(NoId, <<>>, "", NoKey, NoUrl)

\* a collaborator call, as it is logged per operation
Call(c, id, key, name, description) ==
  [call |-> c, id |-> id, key |-> key, name |-> name, description |-> description]

\* the outcome of one getUrl request
UrlSkip == [st |-> "skip", url |-> NoUrl]
UrlPending == [st |-> "pending", url |-> NoUrl]
UrlFailed == [st |-> "failed", url |-> NoUrl]
\* url.href of the signed URL getUrl({key}) resolves to
SignedUrl(key) == <<"url", key>>
UrlOk(key) == [st |-> "ok", url |-> SignedUrl(key)]
UrlOutcomes(key) == {UrlFailed, UrlOk(key)}

\* ---------------------------------------------------------------- state

VARIABLES
  notes,      \* useState([])                       line 22
  formState,  \* useState({name: '', description: ''}) line 23
  file,       \* useState(null)                     line 24
  loading,    \* useState(false)                    line 25
  mounted,    \* the mount effect of line 54 has run
  ops,        \* the operations, in the order they were started
  db,         \* the records of the persistence service, in list order
  store,      \* the keys of the objects in the object store
  nextId,     \* the identifier the persistence service assigns next
  last,       \* the operation that returned last, as it was at its return
  hist        \* what has happened so far: the keys uploads were requested
              \* under (and those of the objects present at the start),
              \* those among them requested again, whether a fetchNotes
              \* has succeeded

vars ==
  <<notes, formState, file, loading, mounted, ops, db, store, nextId, last, hist>>

Slots == 1..MaxStarts

\* the locals of a suspended operation
Idle ==
  [kind |-> "idle", pc |-> "idle", res |-> "none",
   name |-> <<>>, description |-> "", file |-> NoFile,
   key |-> NoKey, imageKey |-> NoKey, note |-> NoNote,
   data |-> <<>>, urls |-> <<>>, calls |-> <<>>,
   err |-> "none", threw |-> FALSE, warned |-> FALSE]

\* an operation that has returned
Done == [Idle EXCEPT !.kind = "done", !.pc = "done"]

\* ---------------------------------------------------------------- helpers

RECURSIVE TrimStart(_)
TrimStart(s) ==
  IF s # <<>> /\ Head(s) \in Whitespace THEN TrimStart(Tail(s)) ELSE s

RECURSIVE TrimEnd(_)
TrimEnd(s) ==
  IF s # <<>> /\ s[Len(s)] \in Whitespace
  THEN TrimEnd(SubSeq(s, 1, Len(s) - 1)) ELSE s

\* String.prototype.trim
Trim(s) == TrimEnd(TrimStart(s))

\* (mutant: the name is tested without trim)
IsBlankMut(name) == name = <<>>

\* !name?.trim()
IsBlank(name) == Trim(name) = <<>>

\* (mutant: the image key is never seen)
HasImageMut(note) == FALSE

\* (mutant: the guard of line 29 is missing, getUrl is always requested)
HasImageAlways(note) == TRUE

\* !note?.image
HasImage(note) == note.image # NoKey

\* (mutant: imageUrl is assigned whatever the note and the outcome are)
WithImageUrlMut(note, r) == [note EXCEPT !.imageUrl = r.url]

\* withImageUrl, given the outcome of its getUrl request
WithImageUrl(note, r) ==
  IF ~HasImage(note) THEN note
  ELSE IF r.st = "ok" THEN [note EXCEPT !.imageUrl = r.url]
  ELSE note

\* the getUrl requests Promise.all(data.map(withImageUrl)) issues
UrlRequests(data) ==
  [j \in 1..Len(data) |-> IF HasImage(data[j]) THEN UrlPending ELSE UrlSkip]

RECURSIVE UrlCalls(_)
UrlCalls(data) ==
  IF data = <<>> THEN <<>>
  ELSE (IF HasImage(Head(data))
        THEN <<Call("getUrl", NoId, Head(data).image, <<>>, "")>> ELSE <<>>)
       \o UrlCalls(Tail(data))

\* the value Promise.all resolves to
Hydrated(data, urls) == [j \in 1..Len(data) |-> WithImageUrl(data[j], urls[j])]

\* (mutant: Promise.race in place of Promise.all)
AllResolvedMut(urls) == urls = <<>> \/ \E j \in 1..Len(urls) : urls[j].st # "pending"

AllResolved(urls) == \A j \in 1..Len(urls) : urls[j].st # "pending"

\* `images/${Date.now()}-${file.name}`
ImageKey(t, f) == <<t, f>>

\* (mutant: imageKey is never assigned)
UploadedKeyMut(key) == NoKey

\* (mutant: imageKey is built with a second, later Date.now())
UploadedKeyAgain(key) == <<key[1] + 1, key[2]>>

\* imageKey = key, after the upload
UploadedKey(key) == key

\* (mutant: the created note is appended)
PrependMut(note, prev) == prev \o <<note>>

\* setNotes((prev) => [createdWithUrl, ...prev])
Prepend(note, prev) == <<note>> \o prev

\* (mutant: the filter keeps the matching notes)
RemoveByIdMut(prev, id) == SelectSeq(prev, LAMBDA n : n.id = id)

\* setNotes((prev) => prev.filter((n) => n.id !== note.id))
RemoveById(prev, id) == SelectSeq(prev, LAMBDA n : n.id # id)

\* (mutant: the try block of createNote opens after the upload)
InTryMutCreate(kind, pc) ==
  \/ kind = "refresh" /\ pc \in {"list", "hydrate"}
  \/ kind = "create" /\ pc \in {"create", "getUrl"}
  \/ kind = "delete" /\ pc \in {"delete", "remove"}

\* (mutant: Notes.list() is awaited outside the try block of fetchNotes)
InTryMutRefresh(kind, pc) ==
  \/ kind = "refresh" /\ pc \in {"hydrate"}
  \/ kind = "create" /\ pc \in {"upload", "create", "getUrl"}
  \/ kind = "delete" /\ pc \in {"delete", "remove"}

\* the await points of each operation are inside its try block
InTry(kind, pc) ==
  \/ kind = "refresh" /\ pc \in {"list", "hydrate"}
  \/ kind = "create" /\ pc \in {"upload", "create", "getUrl"}
  \/ kind = "delete" /\ pc \in {"delete", "remove"}

\* (mutant: no finally block, loading stays as it is)
FinallyMut == loading

\* finally { setLoading(false) }
Finally == FALSE

FreeSlots == {i \in Slots : ops[i].kind = "idle"}
HasFree == FreeSlots # {}
FreeSlot == CHOOSE i \in FreeSlots : \A j \in FreeSlots : i <= j

\* the operation of slot i returns normally, through its finally block
Return(i, op) ==
  /\ ops' = [ops EXCEPT ![i] = Done]
  /\ last' = [op EXCEPT !.pc = "returned", !.res = "none"]
  /\ loading' = Finally

\* the await of the operation of slot i throws
Throw(i, op) ==
  /\ ops' = [ops EXCEPT ![i] = Done]
  /\ IF InTry(op.kind, op.pc)
     THEN /\ last' = [op EXCEPT !.pc = "returned", !.res = "none", !.err = op.pc]
          /\ loading' = Finally
     ELSE /\ last' = [op EXCEPT !.pc = "returned", !.res = "none", !.err = op.pc,
                                !.threw = TRUE]
          /\ UNCHANGED loading

\* ---------------------------------------------------------------- Init

Init ==
  /\ notes = <<>>
  /\ formState = EmptyForm
  /\ file = NoFile
  /\ loading = FALSE
  /\ mounted = FALSE
  /\ ops = [i \in Slots |-> Idle]
  /\ db = InitialDb
  /\ store = InitialStore
  /\ nextId = Len(InitialDb) + 1
  /\ last = Idle
  /\ hist = [used |-> InitialStore, reused |-> {}, synced |-> FALSE]

\* ---------------------------------------------------------------- form

\* onChange of the name input, line 146
SetName(v) ==
  /\ mounted
  /\ formState' = [formState EXCEPT !.name = v]
  /\ UNCHANGED <<notes, file, loading, mounted, ops, db, store, nextId, last, hist>>

\* onChange of the description textarea, line 153
SetDescription(v) ==
  /\ mounted
  /\ formState' = [formState EXCEPT !.description = v]
  /\ UNCHANGED <<notes, file, loading, mounted, ops, db, store, nextId, last, hist>>

\* onChange of the file input, line 158
SetFile(f) ==
  /\ mounted
  /\ file' = f
  /\ UNCHANGED <<notes, formState, loading, mounted, ops, db, store, nextId, last, hist>>

\* ---------------------------------------------------------------- fetchNotes

\* fetchNotes up to its first await: setLoading(true), Notes.list() is sent
StartFetch(i) ==
  /\ loading' = TRUE
  /\ ops' = [ops EXCEPT ![i] =
       [Idle EXCEPT !.kind = "refresh", !.pc = "list", !.res = "pending",
                    !.calls = <<Call("list", NoId, NoKey, <<>>, "")>>]]
  /\ UNCHANGED <<notes, formState, file, db, store, nextId, last, hist>>

\* useEffect(() => { fetchNotes() }, [])
Mount ==
  /\ ~mounted
  /\ mounted' = TRUE
  /\ StartFetch(FreeSlot)

\* onClick of the Refresh button
Refresh ==
  /\ mounted
  /\ HasFree
  /\ StartFetch(FreeSlot)
  /\ UNCHANGED mounted

\* the persistence service answers the list request
ListServe(i) ==
  /\ ops[i].kind = "refresh" /\ ops[i].pc = "list" /\ ops[i].res = "pending"
  /\ \/ ops' = [ops EXCEPT ![i].res = "ok", ![i].data = db]
     \/ ops' = [ops EXCEPT ![i].res = "err"]
  /\ UNCHANGED <<notes, formState, file, loading, mounted, db, store, nextId, last, hist>>

\* fetchNotes resumes after `await client.models.Notes.list()`
ListReturn(i) ==
  /\ ops[i].kind = "refresh" /\ ops[i].pc = "list" /\ ops[i].res # "pending"
  /\ IF ops[i].res = "err"
     THEN /\ Throw(i, ops[i])
          /\ UNCHANGED <<notes, hist>>
     ELSE LET urls == UrlRequests(ops[i].data)
              op == [ops[i] EXCEPT !.pc = "hydrate", !.res = "none", !.urls = urls,
                                   !.calls = @ \o UrlCalls(ops[i].data)]
          IN  IF AllResolved(urls)
              THEN /\ notes' = Hydrated(op.data, op.urls)
                   /\ Return(i, op)
                   /\ hist' = [hist EXCEPT !.synced = TRUE]
              ELSE /\ ops' = [ops EXCEPT ![i] = op]
                   /\ UNCHANGED <<notes, loading, last, hist>>
  /\ UNCHANGED <<formState, file, mounted, db, store, nextId>>

\* one getUrl request of the fan-out resolves or rejects; fetchNotes resumes
\* after `await Promise.all(...)` once the last one has
HydrateReturn(i, j) ==
  /\ ops[i].kind = "refresh" /\ ops[i].pc = "hydrate"
  /\ j \in 1..Len(ops[i].urls)
  /\ ops[i].urls[j].st = "pending"
  /\ \E r \in UrlOutcomes(ops[i].data[j].image) :
       LET op == [ops[i] EXCEPT !.urls[j] = r]
       IN  IF AllResolved(op.urls)
           THEN /\ notes' = Hydrated(op.data, op.urls)
                /\ Return(i, op)
                /\ hist' = [hist EXCEPT !.synced = TRUE]
           ELSE /\ ops' = [ops EXCEPT ![i] = op]
                /\ UNCHANGED <<notes, loading, last, hist>>
  /\ UNCHANGED <<formState, file, mounted, db, store, nextId>>

\* ---------------------------------------------------------------- createNote

\* the early return of createNote (line 63) and of deleteNote (line 103)
NoOp(kind, note) ==
  /\ last' = [Idle EXCEPT !.kind = kind, !.pc = "noop", !.note = note]
  /\ UNCHANGED <<notes, formState, file, loading, mounted, ops, db, store, nextId, hist>>

\* (mutant: the request is built from the form as it is when the call is made)
CreateCallMut(op) ==
  Call("create", NoId, op.imageKey, formState.name, formState.description)

\* the request createNote sends to Notes.create
CreateCall(op) == Call("create", NoId, op.imageKey, op.name, op.description)

\* onSubmit of the form: createNote up to its first await, Date.now() being
\* one of T
CreateNoteAt(T) ==
  /\ mounted
  /\ HasFree
  /\ IF IsBlank(formState.name)
     THEN NoOp("create", NoNote)
     ELSE /\ loading' = TRUE
          /\ LET op == [Idle EXCEPT !.kind = "create", !.name = formState.name,
                                    !.description = formState.description,
                                    !.file = file]
             IN  IF file # NoFile
                 THEN \E t \in T :
                        /\ ops' = [ops EXCEPT ![FreeSlot] =
                             [op EXCEPT !.pc = "upload", !.key = ImageKey(t, file),
                                !.calls = <<Call("upload", NoId, ImageKey(t, file),
                                                 <<>>, "")>>]]
                        /\ hist' = [hist EXCEPT
                             !.used = @ \cup {ImageKey(t, file)},
                             !.reused = @ \cup ({ImageKey(t, file)} \cap hist.used)]
                 ELSE /\ ops' = [ops EXCEPT ![FreeSlot] =
                             [op EXCEPT !.pc = "create", !.res = "pending",
                                        !.calls = <<CreateCall(op)>>]]
                      /\ UNCHANGED hist
          /\ UNCHANGED <<notes, formState, file, mounted, db, store, nextId, last>>

CreateNote == CreateNoteAt(Times)

\* the upload completes or fails; createNote resumes after
\* `await uploadData(...).result`
UploadReturn(i) ==
  /\ ops[i].kind = "create" /\ ops[i].pc = "upload"
  /\ \/ /\ store' = store \cup {ops[i].key}
        /\ LET op == [ops[i] EXCEPT !.imageKey = UploadedKey(ops[i].key)]
           IN  ops' = [ops EXCEPT ![i] =
                 [op EXCEPT !.pc = "create", !.res = "pending",
                            !.calls = Append(@, CreateCall(op))]]
        /\ UNCHANGED <<loading, last>>
     \/ /\ Throw(i, ops[i])
        /\ UNCHANGED store
  /\ UNCHANGED <<notes, formState, file, mounted, db, nextId, hist>>

\* the persistence service answers the create request
CreateServe(i) ==
  /\ ops[i].kind = "create" /\ ops[i].pc = "create" /\ ops[i].res = "pending"
  /\ \/ /\ LET req == ops[i].calls[Len(ops[i].calls)]
               rec == Note(nextId, req.name, req.description, req.key, NoUrl)
           IN  /\ db' = Append(db, rec)
               /\ ops' = [ops EXCEPT ![i].res = "ok", ![i].note = rec]
        /\ nextId' = nextId + 1
     \/ /\ ops' = [ops EXCEPT ![i].res = "err"]
        /\ UNCHANGED <<db, nextId>>
  /\ UNCHANGED <<notes, formState, file, loading, mounted, store, last, hist>>

\* createNote resumes after `await client.models.Notes.create(...)`
CreateReturn(i) ==
  /\ ops[i].kind = "create" /\ ops[i].pc = "create" /\ ops[i].res # "pending"
  /\ IF ops[i].res = "err"
     THEN /\ Throw(i, ops[i])
          /\ UNCHANGED <<notes, formState, file>>
     ELSE /\ formState' = EmptyForm
          /\ file' = NoFile
          /\ IF HasImage(ops[i].note)
             THEN /\ ops' = [ops EXCEPT ![i].pc = "getUrl", ![i].res = "none",
                        ![i].calls = Append(@,
                           Call("getUrl", NoId, ops[i].note.image, <<>>, ""))]
                  /\ UNCHANGED <<notes, loading, last>>
             ELSE /\ notes' = Prepend(WithImageUrl(ops[i].note, UrlSkip), notes)
                  /\ Return(i, ops[i])
  /\ UNCHANGED <<mounted, db, store, nextId, hist>>

\* createNote resumes after `await withImageUrl(created)`
CreateUrlReturn(i) ==
  /\ ops[i].kind = "create" /\ ops[i].pc = "getUrl"
  /\ \E r \in UrlOutcomes(ops[i].note.image) :
       /\ notes' = Prepend(WithImageUrl(ops[i].note, r), notes)
       /\ Return(i, [ops[i] EXCEPT !.urls = <<r>>])
  /\ UNCHANGED <<formState, file, mounted, db, store, nextId, hist>>

\* ---------------------------------------------------------------- deleteNote

\* the notes deleteNote is called with: those the list renders, and two
\* without an identifier, one of them with an image key
DeleteArgs ==
  {notes[k] : k \in 1..Len(notes)}
    \cup {NoNote, Note(NoId, <<"a">>, "", <<0, "p.png">>, NoUrl)}

\* (mutant: deleteNote has no guard)
HasIdMut(note) == TRUE

\* note?.id
HasId(note) == note.id # NoId

\* onClick of a Delete button: deleteNote up to its first await
DeleteNote(n) ==
  /\ mounted
  /\ HasFree
  /\ IF ~HasId(n)
     THEN NoOp("delete", n)
     ELSE /\ loading' = TRUE
          /\ ops' = [ops EXCEPT ![FreeSlot] =
               [Idle EXCEPT !.kind = "delete", !.pc = "delete", !.res = "pending",
                            !.note = n,
                            !.calls = <<Call("delete", n.id, NoKey, <<>>, "")>>]]
          /\ UNCHANGED <<notes, formState, file, mounted, db, store, nextId, last, hist>>

\* the persistence service answers the delete request
DeleteServe(i) ==
  /\ ops[i].kind = "delete" /\ ops[i].pc = "delete" /\ ops[i].res = "pending"
  /\ \/ /\ db' = SelectSeq(db, LAMBDA r : r.id # ops[i].note.id)
        /\ ops' = [ops EXCEPT ![i].res = "ok"]
     \/ /\ ops' = [ops EXCEPT ![i].res = "err"]
        /\ UNCHANGED db
  /\ UNCHANGED <<notes, formState, file, loading, mounted, store, nextId, last, hist>>

\* deleteNote resumes after `await client.models.Notes.delete(...)`
DeleteReturn(i) ==
  /\ ops[i].kind = "delete" /\ ops[i].pc = "delete" /\ ops[i].res # "pending"
  /\ IF ops[i].res = "err"
     THEN /\ Throw(i, ops[i])
          /\ UNCHANGED notes
     ELSE IF HasImage(ops[i].note)
          THEN /\ ops' = [ops EXCEPT ![i].pc = "remove", ![i].res = "none",
                     ![i].calls = Append(@,
                        Call("remove", NoId, ops[i].note.image, <<>>, ""))]
               /\ UNCHANGED <<notes, loading, last>>
          ELSE /\ notes' = RemoveById(notes, ops[i].note.id)
               /\ Return(i, ops[i])
  /\ UNCHANGED <<formState, file, mounted, db, store, nextId, hist>>

\* the remove completes or fails (a warning only); deleteNote resumes after
\* `await remove(...)`
RemoveReturn(i) ==
  /\ ops[i].kind = "delete" /\ ops[i].pc = "remove"
  /\ \/ /\ store' = store \ {ops[i].note.image}
        /\ Return(i, ops[i])
     \/ /\ UNCHANGED store
        /\ Return(i, [ops[i] EXCEPT !.warned = TRUE])
  /\ notes' = RemoveById(notes, ops[i].note.id)
  /\ UNCHANGED <<formState, file, mounted, db, nextId, hist>>

\* ---------------------------------------------------------------- Next

Next ==
  \/ Mount
  \/ Refresh
  \/ CreateNote
  \/ \E v \in Names : SetName(v)
  \/ \E v \in Descriptions : SetDescription(v)
  \/ \E f \in FileNames \cup {NoFile} : SetFile(f)
  \/ \E n \in DeleteArgs : DeleteNote(n)
  \/ \E i \in Slots : ListServe(i)
  \/ \E i \in Slots : ListReturn(i)
  \/ \E i \in Slots : \E j \in 1..Len(ops[i].urls) : HydrateReturn(i, j)
  \/ \E i \in Slots : UploadReturn(i)
  \/ \E i \in Slots : CreateServe(i)
  \/ \E i \in Slots : CreateReturn(i)
  \/ \E i \in Slots : CreateUrlReturn(i)
  \/ \E i \in Slots : DeleteServe(i)
  \/ \E i \in Slots : DeleteReturn(i)
  \/ \E i \in Slots : RemoveReturn(i)

Spec == Init /\ [][Next]_vars

\* a collaborator answers, or an operation resumes with an answer
Progress ==
  \/ \E i \in Slots : ListServe(i)
  \/ \E i \in Slots : ListReturn(i)
  \/ \E i \in Slots : \E j \in 1..Len(ops[i].urls) : HydrateReturn(i, j)
  \/ \E i \in Slots : UploadReturn(i)
  \/ \E i \in Slots : CreateServe(i)
  \/ \E i \in Slots : CreateReturn(i)
  \/ \E i \in Slots : CreateUrlReturn(i)
  \/ \E i \in Slots : DeleteServe(i)
  \/ \E i \in Slots : DeleteReturn(i)
  \/ \E i \in Slots : RemoveReturn(i)

\* the application with a clock that may be set back
NextSkew ==
  \/ Mount
  \/ Refresh
  \/ CreateNoteAt(SkewTimes)
  \/ \E v \in Names : SetName(v)
  \/ \E v \in Descriptions : SetDescription(v)
  \/ \E f \in FileNames \cup {NoFile} : SetFile(f)
  \/ \E n \in DeleteArgs : DeleteNote(n)
  \/ Progress

SpecSkew == Init /\ [][NextSkew]_vars

\* every collaborator call that is outstanding is answered, and the operation
\* that awaits it resumes
SpecFair == Spec /\ WF_vars(Progress)

\* ---------------------------------------------------------------- withImageUrl

\* withImageUrl on its own: the notes it is applied to
HydrateKeys == {ImageKey(t, f) : t \in SkewTimes, f \in FileNames}
HydrateInputs ==
  {Note(id, n, d, k, u) :
     id \in {NoId} \cup (1..Len(InitialDb)), n \in Names, d \in Descriptions,
     k \in {NoKey} \cup HydrateKeys,
     u \in {NoUrl} \cup {SignedUrl(k2) : k2 \in HydrateKeys}}

HydrateInit ==
  /\ notes = <<>>
  /\ formState = EmptyForm
  /\ file = NoFile
  /\ loading = FALSE
  /\ mounted = TRUE
  /\ \E n \in HydrateInputs :
       ops = [i \in Slots |->
                IF i = 1 THEN [Idle EXCEPT !.kind = "hydrate", !.pc = "start",
                                           !.note = n]
                ELSE Idle]
  /\ db = InitialDb
  /\ store = InitialStore
  /\ nextId = Len(InitialDb) + 1
  /\ last = Idle
  /\ hist = [used |-> InitialStore, reused |-> {}, synced |-> FALSE]

\* withImageUrl up to its await: line 29, and the getUrl request of line 31
HydrateStart(i) ==
  /\ ops[i].kind = "hydrate" /\ ops[i].pc = "start"
  /\ IF ~HasImage(ops[i].note)
     THEN /\ ops' = [ops EXCEPT ![i] = Done]
          /\ last' = [ops[i] EXCEPT !.pc = "returned",
                         !.data = <<WithImageUrl(ops[i].note, UrlSkip)>>]
     ELSE /\ ops' = [ops EXCEPT ![i].pc = "getUrl",
                ![i].calls = <<Call("getUrl", NoId, ops[i].note.image, <<>>, "")>>]
          /\ UNCHANGED last
  /\ UNCHANGED <<notes, formState, file, loading, mounted, db, store, nextId, hist>>

\* withImageUrl resumes after `await getUrl(...)`, or in its catch block
HydrateResolve(i) ==
  /\ ops[i].kind = "hydrate" /\ ops[i].pc = "getUrl"
  /\ \E r \in UrlOutcomes(ops[i].note.image) :
       /\ ops' = [ops EXCEPT ![i] = Done]
       /\ last' = [ops[i] EXCEPT !.pc = "returned", !.urls = <<r>>,
                      !.warned = (r.st = "failed"),
                      !.data = <<WithImageUrl(ops[i].note, r)>>]
  /\ UNCHANGED <<notes, formState, file, loading, mounted, db, store, nextId, hist>>

HydrateNext ==
  \/ \E i \in Slots : HydrateStart(i)
  \/ \E i \in Slots : HydrateResolve(i)

SpecHydrate == HydrateInit /\ [][HydrateNext]_vars

\* ================================================================ claims

Active(i) == ops[i].kind \in {"refresh", "create", "delete"}

\* slot i takes the step
Steps(i) == ops'[i] # ops[i]

\* the operation of slot i returns in this step
Returns(i) == Active(i) /\ ops'[i].kind = "done"

CallsOf(op, c) == {k \in 1..Len(op.calls) : op.calls[k].call = c}

\* the operations whose locals the state holds: the suspended ones and the
\* one that returned last
Known == {ops[i] : i \in {j \in Slots : Active(j)}} \cup {last}

\* ---------------------------------------------------------------- C1

\* C1: in every state, loading is true when some operation is suspended at a
\* collaborator call, and false when no operation is in progress.
C1_BusyTracksOperations ==
  /\ (\E i \in Slots : Active(i)) => loading
  /\ (\A i \in Slots : ~Active(i)) => ~loading

\* ---------------------------------------------------------------- C2

\* C2: in every state, no two elements of notes have the same identifier.
C2_UniqueIds ==
  \A j, k \in 1..Len(notes) : j # k => notes[j].id # notes[k].id

\* ---------------------------------------------------------------- C3

\* the create call first appears among the calls of slot i in this step
IssuesCreate(i) ==
  /\ ops'[i].kind = "create"
  /\ CallsOf(ops'[i], "create") # {}
  /\ CallsOf(ops[i], "create") = {}

\* the calls of a createNote, as far as it has come
C3_Calls(op) ==
  LET ups == CallsOf(op, "upload")
      crs == CallsOf(op, "create")
  IN  /\ Cardinality(crs) <= 1
      /\ IF op.file = NoFile
         THEN /\ ups = {}
              /\ \A k \in crs : k = 1 /\ op.calls[k].key = NoKey
         ELSE /\ ups = {1}
              /\ op.calls[1].key # NoKey
              /\ \A k \in crs : k = 2 /\ op.calls[k].key = op.calls[1].key
              /\ op.err = "upload" => crs = {}

C3_Inv == \A op \in Known : (op.kind = "create" /\ op.pc # "noop") => C3_Calls(op)

C3_Step ==
  \A i \in Slots :
    (IssuesCreate(i) /\ ops'[i].file # NoFile) =>
       /\ ops[i].kind = "create" /\ ops[i].pc = "upload"
       /\ ops[i].key \in store'

\* C3: a createNote with a file issues exactly one upload, as its first call;
\* its create call is issued in the step in which that upload has succeeded
\* and carries the key of the upload; no create call follows a failed upload;
\* a createNote without a file issues no upload and its create call carries
\* no image key.
C3_UploadBeforeCreate == []C3_Inv /\ [][C3_Step]_vars

\* a createNote with a file has uploaded and has sent its create call
C3_Witness ==
  \E i \in Slots :
    /\ ops[i].kind = "create" /\ ops[i].pc = "create"
    /\ ops[i].file # NoFile
    /\ Len(ops[i].calls) = 2
    /\ ops[i].calls[2].key = ops[i].key

\* ---------------------------------------------------------------- C4

\* slot i resumes from a create call that succeeded
CreateSucceeds(i) ==
  /\ ops[i].kind = "create" /\ ops[i].pc = "create" /\ ops[i].res = "ok"
  /\ Steps(i)

\* slot i is a createNote that returns without an error caught
CreateCompletes(i) ==
  /\ ops[i].kind = "create" /\ Returns(i)
  /\ last'.err = "none"

C4_Step ==
  \A i \in Slots :
    /\ CreateSucceeds(i) => (formState' = EmptyForm /\ file' = NoFile)
    /\ CreateCompletes(i) =>
         /\ Len(notes') = Len(notes) + 1
         /\ \A k \in 1..Len(notes) : notes'[k + 1] = notes[k]
         /\ notes'[1].id = ops[i].note.id
         /\ notes'[1].id \in (Len(InitialDb) + 1)..(nextId - 1)
         /\ notes'[1].name = ops[i].name
         /\ notes'[1].description = ops[i].description
         /\ ops[i].file = NoFile =>
              (notes'[1].image = NoKey /\ notes'[1].imageUrl = NoUrl)

\* C4: the step in which createNote resumes from a successful create call
\* clears the form buffer and the pending file; the step in which it returns
\* puts the created note (the identifier the service assigned, the submitted
\* name and description, no image key and no imageUrl without a file) first
\* in notes, followed by the previous elements in their previous order.
C4_CreatePrepends == [][C4_Step]_vars

\* a createNote without a file has just returned: its note is first of three
C4_Witness ==
  /\ last.kind = "create" /\ last.pc = "returned" /\ last.err = "none"
  /\ last.file = NoFile
  /\ Len(notes) = 3
  /\ notes[1] = last.note
  /\ notes[2].id = 1 /\ notes[3].id = 2
  /\ formState = EmptyForm /\ file = NoFile

\* ---------------------------------------------------------------- C5

\* slot i is a createNote that takes this step, and the step is not one that
\* follows a create call that succeeded
CreateStepBeforeSuccess(i) ==
  /\ Steps(i)
  /\ \/ ops[i].kind = "idle" /\ ops'[i].kind = "create"
     \/ ops[i].kind = "create" /\ ops[i].pc = "upload"
     \/ ops[i].kind = "create" /\ ops[i].pc = "create" /\ ops[i].res # "ok"

\* slot i is a createNote whose upload or create call fails in this step
CreateFails(i) ==
  /\ Steps(i)
  /\ ops[i].kind = "create"
  /\ \/ ops[i].pc = "upload" /\ ops'[i].pc # "create"
     \/ ops[i].pc = "create" /\ ops[i].res = "err"

C5_Step ==
  \A i \in Slots :
    /\ CreateStepBeforeSuccess(i) => UNCHANGED <<notes, formState, file>>
    /\ CreateFails(i) =>
         /\ ops'[i].kind = "done"
         /\ last'.kind = "create" /\ last'.err \in {"upload", "create"}
         /\ ~last'.threw
         /\ loading' = FALSE

\* C5: no step of a createNote up to and including the failure of its upload
\* or of its create call changes notes, formState or file; the failing step
\* ends the operation without an error thrown to the caller and sets loading
\* to false.
C5_FailedCreateKeepsState == [][C5_Step]_vars

\* a createNote with a file has failed at its create call: the form and the
\* file are as submitted
C5_Witness ==
  /\ last.kind = "create" /\ last.pc = "returned" /\ last.err = "create"
  /\ last.file # NoFile /\ file = last.file
  /\ formState.name = last.name /\ ~IsBlank(formState.name)
  /\ notes # <<>>
  /\ ~loading

\* ---------------------------------------------------------------- C6

\* slot i is a deleteNote that returns after its record deletion succeeded
DeleteCompletes(i) ==
  /\ ops[i].kind = "delete" /\ Returns(i)
  /\ last'.err = "none"

\* the elements of s whose identifier is not id, in their order
RECURSIVE Others(_, _)
Others(s, id) ==
  IF s = <<>> THEN <<>>
  ELSE IF Head(s).id = id THEN Others(Tail(s), id)
  ELSE <<Head(s)>> \o Others(Tail(s), id)

C6_Step ==
  \A i \in Slots :
    DeleteCompletes(i) =>
      /\ \A k \in 1..Len(notes') : notes'[k].id # ops[i].note.id
      /\ notes' = Others(notes, ops[i].note.id)

C7_Calls(op) ==
  LET dels == CallsOf(op, "delete")
      rms == CallsOf(op, "remove")
      succeeded == op.pc \in {"remove", "returned"} /\ op.err = "none"
  IN  /\ dels = {1}
      /\ op.calls[1].id = op.note.id
      /\ IF succeeded /\ op.note.image # NoKey
         THEN rms = {2} /\ op.calls[2].key = op.note.image /\ Len(op.calls) = 2
         ELSE rms = {} /\ Len(op.calls) = 1

\* C7: a deleteNote issues exactly one delete call, for the identifier of its
\* note, as its first call; once the record deletion has succeeded and the
\* note has an image key it has issued exactly one remove call, for that
\* key, after the delete call, whatever the outcome of the remove; it issues
\* no remove call for a note without an image key or after a failed
\* deletion.
C7_DeleteThenRemove ==
  \A op \in Known : (op.kind = "delete" /\ op.pc # "noop") => C7_Calls(op)

\* a deleteNote of a note with an image has returned with both calls made,
\* the remove having failed
C7_Witness ==
  /\ last.kind = "delete" /\ last.pc = "returned" /\ last.err = "none"
  /\ last.warned
  /\ Len(last.calls) = 2
  /\ last.calls[2].call = "remove" /\ last.calls[2].key = last.note.image

\* ---------------------------------------------------------------- C8

\* slot i is a deleteNote that resumes from a failed record deletion
DeleteFails(i) ==
  /\ Steps(i)
  /\ ops[i].kind = "delete" /\ ops[i].pc = "delete" /\ ops[i].res = "err"

C8_Step ==
  \A i \in Slots :
    DeleteFails(i) =>
      /\ notes' = notes
      /\ ops'[i].kind = "done"
      /\ last'.kind = "delete" /\ last'.err = "delete"
      /\ ~last'.threw
      /\ loading' = FALSE

\* C8: the step in which deleteNote resumes from a failed record deletion
\* leaves notes unchanged, ends the operation without an error thrown to the
\* caller and sets loading to false.
C8_FailedDeleteKeepsNotes == [][C8_Step]_vars

\* a deleteNote has failed at its record deletion: its note is still in notes
C8_Witness ==
  /\ last.kind = "delete" /\ last.pc = "returned" /\ last.err = "delete"
  /\ \E k \in 1..Len(notes) : notes[k] = last.note
  /\ ~loading

\* ---------------------------------------------------------------- C9

\* slot i is a fetchNotes that resumes from a failed list request
ListFails(i) ==
  /\ Steps(i)
  /\ ops[i].kind = "refresh" /\ ops[i].pc = "list" /\ ops[i].res = "err"

C9_Step ==
  \A i \in Slots :
    ListFails(i) =>
      /\ notes' = notes
      /\ ops'[i].kind = "done"
      /\ last'.kind = "refresh" /\ last'.err = "list"
      /\ CallsOf(last', "getUrl") = {}
      /\ ~last'.threw
      /\ loading' = FALSE

\* C9: the step in which fetchNotes resumes from a failed list request
\* leaves notes unchanged, ends the operation with no getUrl call issued and
\* no error thrown to the caller, and sets loading to false.
C9_FailedListKeepsNotes == [][C9_Step]_vars

\* a fetchNotes has failed at its list request while notes held two notes
C9_Witness ==
  /\ last.kind = "refresh" /\ last.pc = "returned" /\ last.err = "list"
  /\ Len(notes) = 2
  /\ ~loading

\* ---------------------------------------------------------------- C10

\* slot i is a fetchNotes whose list request succeeded and that returns
RefreshCompletes(i) ==
  /\ ops[i].kind = "refresh" /\ Returns(i)
  /\ last'.err = "none"

\* slot i is a fetchNotes that takes a step and does not return
RefreshContinues(i) ==
  /\ Steps(i)
  /\ ops'[i].kind = "refresh"

C10_Step ==
  \A i \in Slots :
    /\ RefreshContinues(i) => notes' = notes
    /\ RefreshCompletes(i) =>
         LET data == ops[i].data
             urls == last'.urls
         IN  /\ Len(notes') = Len(data)
             /\ Len(urls) = Len(data)
             /\ \A j \in 1..Len(data) :
                  /\ urls[j].st # "pending"
                  /\ data[j].image # NoKey => urls[j].st \in {"ok", "failed"}
                  /\ notes'[j].id = data[j].id
                  /\ notes'[j].name = data[j].name
                  /\ notes'[j].description = data[j].description
                  /\ notes'[j].image = data[j].image
                  /\ notes'[j].imageUrl =
                       IF urls[j].st = "ok" THEN SignedUrl(data[j].image) ELSE NoUrl

\* C10: a fetchNotes changes notes only in the step in which it returns, and
\* then, its list request having succeeded, every getUrl request of its notes
\* has resolved or failed and notes is the list answer element by element and
\* in its order, each note with the URL of its own request, or with no
\* imageUrl where that request failed or the note has no image key.
C10_RefreshReplaces == [][C10_Step]_vars

\* a fetchNotes has returned after one of its getUrl requests failed: that
\* note has no imageUrl, while the service has created a third record
C10_Witness ==
  /\ last.kind = "refresh" /\ last.pc = "returned" /\ last.err = "none"
  /\ Len(last.urls) = 2 /\ Len(notes) = 2
  /\ last.urls[2].st = "failed"
  /\ notes[2].image # NoKey /\ notes[2].imageUrl = NoUrl
  /\ nextId > Len(InitialDb) + 1

\* ---------------------------------------------------------------- C11

C11_Result(op) ==
  LET N == op.note
      R == op.data[1]
  IN  /\ Len(op.data) = 1
      /\ R.id = N.id /\ R.name = N.name /\ R.description = N.description
      /\ R.image = N.image
      /\ ~op.threw /\ op.err = "none"
      /\ IF N.image = NoKey
         THEN R = N /\ op.calls = <<>>
         ELSE /\ Len(op.calls) = 1
              /\ op.calls[1].call = "getUrl" /\ op.calls[1].key = N.image
              /\ Len(op.urls) = 1
              /\ op.urls[1].st \in {"ok", "failed"}
              /\ op.urls[1].st = "ok" =>
                   (op.urls[1].url = SignedUrl(N.image) /\ R.imageUrl = op.urls[1].url)
              /\ op.urls[1].st = "failed" => R = N

\* C11: withImageUrl returns its note with every field but imageUrl as it
\* was; for a note without an image key it returns the note itself and issues
\* no call; for a note with image key K it issues one getUrl for K and returns
\* the note with the URL of that request as imageUrl, or, the request having
\* failed, the note itself, without an error thrown.
C11_HydratePreserves ==
  (last.kind = "hydrate" /\ last.pc = "returned") => C11_Result(last)

\* withImageUrl has returned a note with an image key unchanged after its
\* getUrl failed
C11_Witness ==
  /\ last.kind = "hydrate" /\ last.pc = "returned"
  /\ last.note.image # NoKey
  /\ last.urls = <<UrlFailed>>
  /\ last.data = <<last.note>>

\* ---------------------------------------------------------------- C12

\* C12: in every state, each note of notes has no imageUrl, or it has an
\* image key and its imageUrl is the URL getUrl gives for that key.
C12_UrlFromOwnKey ==
  \A k \in 1..Len(notes) :
    \/ notes[k].imageUrl = NoUrl
    \/ /\ notes[k].image # NoKey
       /\ notes[k].imageUrl = SignedUrl(notes[k].image)

\* notes holds a note with an imageUrl and a created note with an image key
\* whose getUrl failed
C12_Witness ==
  /\ \E k \in 1..Len(notes) : notes[k].imageUrl # NoUrl
  /\ \E k \in 1..Len(notes) :
       /\ notes[k].id > Len(InitialDb)
       /\ notes[k].image # NoKey /\ notes[k].imageUrl = NoUrl

\* ---------------------------------------------------------------- C13

\* C13: when every outstanding collaborator call is answered, every
\* operation that has started returns, whatever calls fail; no operation
\* throws to its caller; and loading is false whenever no operation is in
\* progress.
C13_OperationsComplete ==
  /\ \A i \in Slots : Active(i) ~> (ops[i].kind = "done")
  /\ [](~last.threw)
  /\ []((\A i \in Slots : ~Active(i)) => ~loading)

\* every operation of the run has returned, the last one after a failure
C13_Witness ==
  /\ \A i \in Slots : ops[i].kind = "done"
  /\ last.pc = "returned" /\ last.err # "none"
  /\ ~loading

\* ---------------------------------------------------------------- C14

\* slot i starts an operation of this kind in this step
Starts(i, kind) == ops[i].kind = "idle" /\ ops'[i].kind = kind

\* the early return of an operation of this kind is taken in this step
ReturnsEarly(kind) == last' # last /\ last'.kind = kind /\ last'.pc = "noop"

\* the name is empty or all whitespace
OnlyWhitespace(name) == \A k \in 1..Len(name) : name[k] \in Whitespace

C14_Step ==
  /\ ReturnsEarly("create") =>
       /\ OnlyWhitespace(formState.name)
       /\ last'.calls = <<>>
       /\ UNCHANGED <<notes, formState, file, loading, ops, db, store, nextId>>
  /\ \A i \in Slots :
       Starts(i, "create") => ~OnlyWhitespace(formState.name)

\* C14: createNote starts its work (setLoading, upload or create call) only
\* with a name that has a character other than whitespace; with an empty or
\* all-whitespace name it returns at once, with no call issued and notes,
\* formState, file and loading unchanged.
C14_BlankNameIsNoOp == [][C14_Step]_vars

\* createNote has returned at once on a whitespace name, with a file chosen
\* and notes loaded: all are as they were
C14_Witness ==
  /\ last.kind = "create" /\ last.pc = "noop"
  /\ formState.name = <<" ">>
  /\ file # NoFile
  /\ Len(notes) = Len(InitialDb)
  /\ store = InitialStore /\ db = InitialDb
  /\ ~loading

\* ---------------------------------------------------------------- C15

C15_Step ==
  /\ ReturnsEarly("delete") =>
       /\ last'.note.id = NoId
       /\ last'.calls = <<>>
       /\ UNCHANGED <<notes, formState, file, loading, ops, db, store, nextId>>
  /\ \A i \in Slots :
       Starts(i, "delete") =>
         /\ ops'[i].note.id # NoId
         /\ ops'[i].calls = <<Call("delete", ops'[i].note.id, NoKey, <<>>, "")>>

\* C15: deleteNote starts its work (setLoading, delete call) only for a note
\* with an identifier; for a note without one, with or without an image key,
\* it returns at once, with no call issued and notes and loading unchanged.
C15_NoIdIsNoOp == [][C15_Step]_vars

\* deleteNote has returned at once on a note without identifier that has an
\* image key: the object of that key is still stored
C15_Witness ==
  /\ last.kind = "delete" /\ last.pc = "noop"
  /\ last.note.id = NoId /\ last.note.image \in store
  /\ Len(notes) = Len(InitialDb)
  /\ db = InitialDb
  /\ ~loading

\* ---------------------------------------------------------------- C16

\* slot i is a createNote whose upload succeeded and whose create call is
\* answered with a failure in this step
CreateFailsAfterUpload(i) ==
  /\ Steps(i)
  /\ ops[i].kind = "create" /\ ops[i].pc = "create" /\ ops[i].res = "err"
  /\ ops[i].file # NoFile

\* the object stored under key is there and no record and no note names it
Orphan(key) ==
  /\ key \in store'
  /\ \A k \in 1..Len(db') : db'[k].image # key
  /\ \A k \in 1..Len(notes') : notes'[k].image # key

C16_Step ==
  \A i \in Slots :
    CreateFailsAfterUpload(i) =>
      /\ CallsOf(last', "remove") = {}
      /\ Orphan(ops[i].key)

\* C16 as stated: when a createNote's upload succeeds and its create call
\* fails, the operation issues no remove call, and at its end the uploaded
\* object is in the store while no record and no note references its key.
C16_OrphanAfterFailedCreate == [][C16_Step]_vars

C16_StepFresh ==
  \A i \in Slots :
    CreateFailsAfterUpload(i) =>
      /\ CallsOf(last', "remove") = {}
      /\ CallsOf(last', "create") # {}
      /\ \A k \in CallsOf(last', "create") : last'.calls[k].key = ops[i].key
      /\ UNCHANGED <<store, db, notes>>
      /\ ops[i].key \notin hist.reused => Orphan(ops[i].key)

\* C16 amended: when a createNote's upload succeeds and its create call (the
\* one that named the uploaded key) fails, the operation issues no remove
\* call and the failing step changes neither the store, the table nor notes;
\* if the key was the key of no other upload and of no object stored before,
\* the uploaded object is in the store at the end while no record and no note
\* references its key.
C16_OrphanOfFreshKey == [][C16_StepFresh]_vars

\* a createNote with a file has failed at its create call; its key was used
\* by this upload alone, the object is stored and no record names it
C16_Witness ==
  /\ last.kind = "create" /\ last.err = "create" /\ last.file # NoFile
  /\ last.key \notin hist.reused
  /\ last.key \in store
  /\ \A k \in 1..Len(db) : db[k].image # last.key
  /\ \A k \in 1..Len(notes) : notes[k].image # last.key

\* ---------------------------------------------------------------- C17

\* C17: with no other writer of the table and the store than these
\* operations, every record whose image key is the key of one upload only (or
\* of one object stored at the start and never uploaded again) names an
\* object that is in the store; and a deleteNote issues a remove call only
\* after its delete call has succeeded.
C17_RecordsHaveObjects ==
  /\ \A k \in 1..Len(db) :
       (HasImage(db[k]) /\ db[k].image \notin hist.reused)
         => db[k].image \in store
  /\ \A op \in Known :
       (op.kind = "delete" /\ CallsOf(op, "remove") # {})
         => op.err # "delete" /\ op.pc \in {"remove", "returned"}

\* a deleteNote of a note with an image has failed at its delete call: the
\* record is still in the table, its object is in the store and no remove
\* call was issued
C17_Witness ==
  /\ last.kind = "delete" /\ last.err = "delete" /\ HasImage(last.note)
  /\ CallsOf(last, "remove") = {}
  /\ last.note.image \notin hist.reused
  /\ last.note.image \in store
  /\ \E k \in 1..Len(db) :
       db[k].id = last.note.id /\ db[k].image = last.note.image

\* ---------------------------------------------------------------- C18

\* no operation is in progress
Quiet == \A i \in Slots : ~Active(i)

\* the application used one operation at a time: an operation is invoked only
\* when the one before has returned (the form may be edited at any time)
SeqNext ==
  \/ Quiet /\ Mount
  \/ Quiet /\ Refresh
  \/ Quiet /\ CreateNote
  \/ \E v \in Names : SetName(v)
  \/ \E v \in Descriptions : SetDescription(v)
  \/ \E f \in FileNames \cup {NoFile} : SetFile(f)
  \/ Quiet /\ \E n \in DeleteArgs : DeleteNote(n)
  \/ Progress

SpecSeq == Init /\ [][SeqNext]_vars

\* the identifiers in a sequence of notes or records
IdsOf(s) == {s[k].id : k \in 1..Len(s)}

\* C18: operations run one at a time; once a fetchNotes has succeeded, the
\* identifiers in notes are those of the records of the table whenever no
\* operation is in progress.
C18_SequentialSync ==
  (hist.synced /\ Quiet) => IdsOf(notes) = IdsOf(db)

\* after a successful fetchNotes a createNote or a deleteNote has completed
\* and changed the table; notes has the identifiers of the table
C18_Witness ==
  /\ hist.synced /\ Quiet
  /\ last.kind \in {"create", "delete"} /\ last.pc = "returned"
  /\ last.err = "none"
  /\ IdsOf(db) # IdsOf(InitialDb)
  /\ IdsOf(notes) = IdsOf(db)

\* ---------------------------------------------------------------- C19

\* the records created since the start
CreatedIds == {x \in IdsOf(db) : x \notin IdsOf(InitialDb)}

\* C19 as stated: once every operation has completed, notes contains every
\* note whose create succeeded and that has not been deleted since, however
\* the operations overlapped.
C19_CreatedNotesStay ==
  Quiet => CreatedIds \subseteq IdsOf(notes)

C19_Step ==
  /\ \A i \in Slots :
       CreateCompletes(i) => ops[i].note.id \in IdsOf(notes')
  /\ \A x \in IdsOf(notes) \ IdsOf(notes') :
       \E i \in Slots :
         \/ DeleteCompletes(i) /\ ops[i].note.id = x
         \/ RefreshCompletes(i) /\ x \notin IdsOf(ops[i].data)

\* C19 amended: a createNote that succeeds puts its note in notes, and a note
\* leaves notes only in the completing step of a deleteNote of its identifier
\* or of a fetchNotes whose list answer does not contain it; so once every
\* operation has completed, notes contains every note whose create succeeded,
\* unless it was deleted since or a fetchNotes whose list was answered before
\* the record was created completed after the createNote did.
C19_NotesLeaveByDeleteOrRefresh == [][C19_Step]_vars

\* every operation has completed, the created record is in the table, and
\* the fetchNotes that completed last has replaced notes by a list answered
\* before the record was created
C19_Witness ==
  /\ Quiet
  /\ last.kind = "refresh" /\ last.err = "none"
  /\ CreatedIds # {}
  /\ \A x \in CreatedIds : x \notin IdsOf(notes) /\ x \notin IdsOf(last.data)

\* ---------------------------------------------------------------- C20

\* what a createNote holds of the form: name, description and file
Captured(op) == <<op.name, op.description, op.file>>

\* the calls of a createNote carry what it holds of the form
CarriesCaptured(op) ==
  /\ \A k \in CallsOf(op, "upload") :
       op.file # NoFile /\ op.calls[k].key[2] = op.file
  /\ \A k \in CallsOf(op, "create") :
       /\ op.calls[k].name = op.name
       /\ op.calls[k].description = op.description
       /\ op.calls[k].key = IF op.file = NoFile THEN NoKey ELSE op.key

C20_Step ==
  \A i \in Slots :
    /\ Starts(i, "create") =>
         Captured(ops'[i]) = <<formState.name, formState.description, file>>
    /\ (ops[i].kind = "create" /\ ops'[i].kind = "create") =>
         Captured(ops'[i]) = Captured(ops[i])
    /\ ops'[i].kind = "create" => CarriesCaptured(ops'[i])
    /\ (ops[i].kind = "create" /\ ops[i].res = "pending" /\ ops'[i].res = "ok") =>
         /\ ops'[i].note.name = ops[i].name
         /\ ops'[i].note.description = ops[i].description
         /\ HasImage(ops'[i].note) <=> ops[i].file # NoFile
    /\ CreateSucceeds(i) => (formState' = EmptyForm /\ file' = NoFile)

\* C20: the upload and the create request of a createNote, and the record
\* made from the request, carry the name, the description and the file the
\* form held when createNote was invoked, whatever edits the form gets while
\* the calls are outstanding; when the create call succeeds the form is reset
\* to the empty name and description and to no file, whatever it holds then.
C20_CreateUsesCapturedForm == [][C20_Step]_vars

\* a createNote with a file has its record made from the values captured,
\* and is about to reset a form that was edited while its calls were
\* outstanding
C20_Witness ==
  \E i \in Slots :
    /\ ops[i].kind = "create" /\ ops[i].pc = "create" /\ ops[i].res = "ok"
    /\ ops[i].file # NoFile
    /\ formState.name \notin {ops[i].name, EmptyForm.name}
    /\ formState.description # ops[i].description
    /\ ops[i].note.name = ops[i].name
    /\ ops[i].note.description = ops[i].description
====
